---- MODULE Spec2Model ----
(***************************************************************************)
(* Model of Arduino_BMS_4S-v1.ino: the control loop and the console of a   *)
(* 1S..4S Li-ion / LiFePO4 balancing charger (loop, RotactorConfig,        *)
(* serialEvent, EEPROM_Get, EEPROM_Update).                                *)
(*                                                                         *)
(* Units.  The sketch computes in float volts.  Here a voltage is an       *)
(* integer number of units of 5/(1023*1000) V, so that                     *)
(*   (raw / 1023.0) * 5.0 * calibration * (i+1)                            *)
(* is the exact integer raw * (1000*calibration) * (i+1).  Calibration     *)
(* multipliers are kept in thousandths and thresholds in hundredths of a   *)
(* volt, the resolutions of the persistent store.  One hundredth of a volt *)
(* is 2046 units; 4.9 V is 1002540 units.  Float rounding is modelled      *)
(* where the sketch truncates a float to an integer (EEPROM_Update), not   *)
(* in the voltages.                                                        *)
(*                                                                         *)
(* Arrays are functions on 0..3 (cells) or 0..1 (chemistry), bool pins     *)
(* and flags are BOOLEAN (HIGH = TRUE).                                    *)
(***************************************************************************)
EXTENDS Integers, Sequences, FiniteSets, TLC

VARIABLES
    cellModel,            \* FALSE = Li-ion, TRUE = LifePo4
    cellNumber,           \* number of cells to charge
    Vmax, Vmin,           \* thresholds per chemistry, hundredths of a volt
    Vcalibration,         \* per-cell multiplier, thousandths
    eeprom,               \* persistent store, bytes 0..11
    Valim,                \* power supply voltage (units)
    Vcell,                \* cells measured voltage (units)
    memo_Vcell,           \* past cells voltage (units)
    runOnce,              \* re-settle flag
    pwm,                  \* buck converter duty, a byte
    Imax,                 \* overcurrent flag of the latest pass
    memo_Urc, memo_Drc, memo_Crc,   \* selector inputs last seen
    VcellCumul,           \* loop static: cumulative analogRead per channel
    analogReadsCount,     \* loop static: unsigned int sample counter
    buzzerON,             \* loop static: undervoltage alarm flag
    oneMinute,            \* loop static: one full minute elapsed
    counter,              \* loop static: re-settle pulse counter, a byte
    memo_tempo_shuntON,   \* loop static: time of the last re-settle pulse
    memo_tempo,           \* loop static: time of the last one-second evaluation
    memo_tempo_tendancy,  \* loop static: time of the last 60-second step
    tempo,                \* millis() as sampled by the latest pass
    VcellByte,            \* analogRead of the four channels in the latest pass
    shuntPin,             \* level of the four shunt outputs
    buzzerPin,            \* TRUE iff the latest pass started a tone
    pulses,               \* observer: re-settle pulses since the latest of
                          \*   power-up, detected selector change, "runOnce = false"
    cleared,              \* observer: the latest pass executed "runOnce = false"
    index,                \* console: write position in consoleInput, a byte
    consoleInput,         \* console: char consoleInput[7], character codes
    whatToDisplay,        \* console: display selector, a character code
    serialRx,             \* bytes received on the serial line and not yet read
    consoleOut,           \* text printed by the latest serialEvent() call
    strayWrite,           \* observer: the latest serialEvent() call stored
                          \*   outside the bounds of an array
    received              \* number of lines the host has sent so far

vars == << cellModel, cellNumber, Vmax, Vmin, Vcalibration, eeprom, Valim, Vcell,
           memo_Vcell, runOnce, pwm, Imax, memo_Urc, memo_Drc, memo_Crc,
           VcellCumul, analogReadsCount, buzzerON, oneMinute, counter,
           memo_tempo_shuntON, memo_tempo, memo_tempo_tendancy, tempo,
           VcellByte, shuntPin, buzzerPin, pulses, cleared, index,
           consoleInput, whatToDisplay, serialRx, consoleOut, strayWrite,
           received >>

Cells == 0..3

(***************************************************************************)
(* Program constants                                                       *)
(***************************************************************************)
\* 0.01 V in units: 1023 * 1000 / (5 * 100)
CentiVolt == 2046

\* the 4.9 V of "Vcell[0] < 4.9" and of Vcell's initialiser, in units
Sentinel == 1002540

\* "if( ++analogReadsCount > 100 ) return;"
SampleWindow == 100

\* "tempo - memo_tempo_shuntON > 300"
PulseGap == 300

\* "tempo - memo_tempo < 1000"
Second == 1000

\* "tempo - memo_tempo_tendancy < 60000"
Minute == 60000

\* "if( counter > 5 )"
PulseLimit == 5

\* "char consoleInput[7]"
BufferSize == 7

\* '\n'
NL == 10

Ascii ==
    [ A |-> 65, B |-> 66, b |-> 98, L |-> 76, l |-> 108, H |-> 72, h |-> 104,
      E |-> 69, e |-> 101, S |-> 83, s |-> 115, T |-> 84, t |-> 116,
      F |-> 70, f |-> 102, X |-> 88 ]

\* the character of a decimal digit
Digit(d) == 48 + d

Idx(model) == IF model THEN 1 ELSE 0

Zero4 == [i \in Cells |-> 0]

(***************************************************************************)
(* Bounds of the model: the horizon of each specification, counted in the  *)
(* shortest time between two passes it allows.                             *)
(***************************************************************************)
\* Spec: half seconds after power-up
Horizon == 10

\* SpecMinute: half seconds after power-up
HorizonMinute == 132

\* SpecPwm: quarter seconds after power-up
HorizonPwm == 260

\* SpecLive: quarter seconds after power-up
HorizonLive == 264

(***************************************************************************)
(* EEPROM_Get: decode the persistent store.                                *)
(***************************************************************************)
Int16(n) == IF n % 65536 >= 32768 THEN (n % 65536) - 65536 ELSE n % 65536

EEPROM_Get(store) ==
    [ Vcalibration |-> [i \in Cells |-> Int16(store[2*i] * 256 + store[2*i + 1])],
      Vmax         |-> [m \in 0..1 |-> store[8 + m] + 300],
      Vmin         |-> [m \in 0..1 |-> store[10 + m] + 300] ]

\* a store holding the sketch's defaults: calibration 1.000, Vmax 4.20/3.70,
\* Vmin 3.60/3.20
DefaultStore ==
    [a \in 0..11 |->
        CASE a \in {0, 2, 4, 6} -> 3
          [] a \in {1, 3, 5, 7} -> 232
          [] a = 8  -> 120
          [] a = 9  -> 70
          [] a = 10 -> 60
          [] a = 11 -> 20]

\* the same store after the four cells were calibrated to 1.023 and saved
CalibratedStore ==
    [a \in 0..11 |-> IF a \in {1, 3, 5, 7} THEN 255 ELSE DefaultStore[a]]

Stores == {DefaultStore, CalibratedStore}

(***************************************************************************)
(* The program state as one record, and the stages of loop().              *)
(***************************************************************************)
State ==
    [ cellModel |-> cellModel, cellNumber |-> cellNumber, Vmax |-> Vmax,
      Vmin |-> Vmin, Vcalibration |-> Vcalibration, eeprom |-> eeprom,
      Valim |-> Valim, Vcell |-> Vcell, memo_Vcell |-> memo_Vcell,
      runOnce |-> runOnce, pwm |-> pwm, Imax |-> Imax, memo_Urc |-> memo_Urc,
      memo_Drc |-> memo_Drc, memo_Crc |-> memo_Crc, VcellCumul |-> VcellCumul,
      analogReadsCount |-> analogReadsCount, buzzerON |-> buzzerON,
      oneMinute |-> oneMinute, counter |-> counter,
      memo_tempo_shuntON |-> memo_tempo_shuntON, memo_tempo |-> memo_tempo,
      memo_tempo_tendancy |-> memo_tempo_tendancy, tempo |-> tempo,
      VcellByte |-> VcellByte, shuntPin |-> shuntPin, buzzerPin |-> buzzerPin,
      pulses |-> pulses, cleared |-> cleared ]

\* RotactorConfig with the counts of (1,0) and (0,1) exchanged
RotactorConfigSwapped(s, Urc, Drc, Crc) ==
    [s EXCEPT
        !.cellModel  = Crc,
        !.cellNumber = IF Urc THEN (IF Drc THEN 4 ELSE 3)
                              ELSE (IF Drc THEN 2 ELSE 1),
        !.runOnce    = IF (Urc # s.memo_Urc) \/ (Drc # s.memo_Drc) \/ (Crc # s.memo_Crc)
                       THEN TRUE ELSE s.runOnce,
        !.pulses     = IF (Urc # s.memo_Urc) \/ (Drc # s.memo_Drc) \/ (Crc # s.memo_Crc)
                       THEN 0 ELSE s.pulses,
        !.memo_Urc   = Urc,
        !.memo_Drc   = Drc,
        !.memo_Crc   = Crc]

\* RotactorConfig that does not remember the chemistry input
RotactorConfigNoMemo(s, Urc, Drc, Crc) ==
    [s EXCEPT
        !.cellModel  = Crc,
        !.cellNumber = IF Urc THEN (IF Drc THEN 4 ELSE 2)
                              ELSE (IF Drc THEN 3 ELSE 1),
        !.runOnce    = IF (Urc # s.memo_Urc) \/ (Drc # s.memo_Drc) \/ (Crc # s.memo_Crc)
                       THEN TRUE ELSE s.runOnce,
        !.pulses     = IF (Urc # s.memo_Urc) \/ (Drc # s.memo_Drc) \/ (Crc # s.memo_Crc)
                       THEN 0 ELSE s.pulses,
        !.memo_Urc   = Urc,
        !.memo_Drc   = Drc]

\* RotactorConfig(): decode the selector, detect a change against the
\* inputs last seen, remember the inputs.
RotactorConfig(s, Urc, Drc, Crc) ==
    [s EXCEPT
        !.cellModel  = Crc,
        !.cellNumber = IF Urc THEN (IF Drc THEN 4 ELSE 2)
                              ELSE (IF Drc THEN 3 ELSE 1),
        !.runOnce    = IF (Urc # s.memo_Urc) \/ (Drc # s.memo_Drc) \/ (Crc # s.memo_Crc)
                       THEN TRUE ELSE s.runOnce,
        !.pulses     = IF (Urc # s.memo_Urc) \/ (Drc # s.memo_Drc) \/ (Crc # s.memo_Crc)
                       THEN 0 ELSE s.pulses,
        !.memo_Urc   = Urc,
        !.memo_Drc   = Drc,
        !.memo_Crc   = Crc]

\* the runOnce block without "shunt inactive cells"
ReSettleActiveOnly(s, t) ==
    IF ~s.runOnce THEN s
    ELSE LET s1 == [s EXCEPT !.buzzerON = FALSE]
         IN  IF s1.counter > PulseLimit
             THEN [s1 EXCEPT !.counter = 0, !.runOnce = FALSE,
                             !.cleared = TRUE, !.pulses = 0]
             ELSE IF t - s1.memo_tempo_shuntON > PulseGap
             THEN [s1 EXCEPT
                     !.memo_tempo_shuntON = t,
                     !.counter  = (s1.counter + 1) % 256,
                     !.pulses   = s1.pulses + 1,
                     !.shuntPin = [i \in Cells |->
                                     IF i < s1.cellNumber THEN FALSE ELSE s1.shuntPin[i]]]
             ELSE s1

\* the runOnce block without "counter++"
ReSettleNoCount(s, t) ==
    IF ~s.runOnce THEN s
    ELSE LET s1 == [s EXCEPT
                      !.buzzerON = FALSE,
                      !.shuntPin = [i \in Cells |->
                                      IF i >= s.cellNumber THEN TRUE ELSE s.shuntPin[i]]]
         IN  IF s1.counter > PulseLimit
             THEN [s1 EXCEPT !.counter = 0, !.runOnce = FALSE,
                             !.cleared = TRUE, !.pulses = 0]
             ELSE IF t - s1.memo_tempo_shuntON > PulseGap
             THEN [s1 EXCEPT
                     !.memo_tempo_shuntON = t,
                     !.pulses   = s1.pulses + 1,
                     !.shuntPin = [i \in Cells |->
                                     IF i < s1.cellNumber THEN FALSE ELSE s1.shuntPin[i]]]
             ELSE s1

\* The "if( runOnce )" block of loop(), t being this pass's millis().
\* The 1 ms HIGH of the active shunts' pulse lies inside the pass; the
\* level they are left at (LOW) is the level recorded.
ReSettle(s, t) ==
    IF ~s.runOnce THEN s
    ELSE LET s1 == [s EXCEPT
                      !.buzzerON = FALSE,
                      !.shuntPin = [i \in Cells |->
                                      IF i >= s.cellNumber THEN TRUE ELSE s.shuntPin[i]]]
         IN  IF s1.counter > PulseLimit
             THEN [s1 EXCEPT !.counter = 0, !.runOnce = FALSE,
                             !.cleared = TRUE, !.pulses = 0]
             ELSE IF t - s1.memo_tempo_shuntON > PulseGap
             THEN [s1 EXCEPT
                     !.memo_tempo_shuntON = t,
                     !.counter  = (s1.counter + 1) % 256,
                     !.pulses   = s1.pulses + 1,
                     !.shuntPin = [i \in Cells |->
                                     IF i < s1.cellNumber THEN FALSE ELSE s1.shuntPin[i]]]
             ELSE s1

\* "read the analog values" and the overcurrent input (Imax = !digitalRead)
Sample(s, raw, ImaxPin) ==
    [s EXCEPT
        !.VcellByte  = raw,
        !.VcellCumul = [i \in Cells |-> s.VcellCumul[i] + raw[i]],
        !.Imax       = ~ImaxPin]

\* DutyStep without the tests "pwm > 0" and "pwm < 255"
DutyStepWrap(duty, imax, v0) ==
    IF imax \/ (v0 < Sentinel) THEN (duty - 1) % 256 ELSE (duty + 1) % 256

\* DutyStep that looks at the bottom cell only
DutyStepNoImax(duty, imax, v0) ==
    IF v0 < Sentinel
    THEN (IF duty > 0 THEN (duty - 1) % 256 ELSE duty)
    ELSE (IF duty < 255 THEN (duty + 1) % 256 ELSE duty)

\* "define the DC-DC buck converter pwm ratio": one step of the byte pwm
DutyStep(duty, imax, v0) ==
    IF imax \/ (v0 < Sentinel)
    THEN (IF duty > 0 THEN (duty - 1) % 256 ELSE duty)
    ELSE (IF duty < 255 THEN (duty + 1) % 256 ELSE duty)

\* "if( ++analogReadsCount > 100 ) return;": TRUE when the pass returns here
WindowReturn(count) == count > SampleWindow

\* absolute voltage of node i from its accumulator (exact whenever count
\* divides the accumulator, as it does for count = 1)
Absolute(i, cumul, count, cal) == (cumul * cal * (i + 1)) \div count

\* Telescope with the loop ascending: cells 2 and 3 subtract a cell voltage
TelescopeAscending(abs) ==
    LET v1 == abs[1] - abs[0]
        v2 == abs[2] - v1
        v3 == abs[3] - v2
    IN  [i \in Cells |-> CASE i = 0 -> abs[0] [] i = 1 -> v1 [] i = 2 -> v2 [] i = 3 -> v3]

\* "for( byte i=3; i>0; i-- ) Vcell[i] -= Vcell[i-1];": descending, so each
\* subtrahend is still an absolute node voltage
Telescope(abs) ==
    LET v3 == abs[3] - abs[2]
        v2 == abs[2] - abs[1]
        v1 == abs[1] - abs[0]
    IN  [i \in Cells |-> CASE i = 0 -> abs[0] [] i = 1 -> v1 [] i = 2 -> v2 [] i = 3 -> v3]

\* "calculate voltages"
Resolve(s) ==
    LET abs == [i \in Cells |->
                  Absolute(i, s.VcellCumul[i], s.analogReadsCount, s.Vcalibration[i])]
    IN  [s EXCEPT
            !.VcellCumul       = Zero4,
            !.analogReadsCount = 0,
            !.Valim            = abs[3],
            !.Vcell            = Telescope(abs)]

\* Balance that compares with the Li-ion Vmax whatever the chemistry
BalanceFirstProfile(s) ==
    LET over(i)  == s.Vcell[i] > s.Vmax[0] * CentiVolt
        under(i) == s.Vcell[i] < s.Vmin[Idx(s.cellModel)] * CentiVolt
        alarm    == s.buzzerON \/ \E i \in Cells : ~over(i) /\ s.oneMinute /\ under(i)
    IN  [s EXCEPT
            !.shuntPin  = [i \in Cells |-> IF over(i) THEN TRUE ELSE s.shuntPin[i]],
            !.buzzerON  = alarm,
            !.buzzerPin = alarm]

\* Balance without the oneMinute test
BalanceNoMinute(s) ==
    LET over(i)  == s.Vcell[i] > s.Vmax[Idx(s.cellModel)] * CentiVolt
        under(i) == s.Vcell[i] < s.Vmin[Idx(s.cellModel)] * CentiVolt
        alarm    == s.buzzerON \/ \E i \in Cells : ~over(i) /\ under(i)
    IN  [s EXCEPT
            !.shuntPin  = [i \in Cells |-> IF over(i) THEN TRUE ELSE s.shuntPin[i]],
            !.buzzerON  = alarm,
            !.buzzerPin = alarm]

\* Balance that switches the shunt of a cell at or below Vmax off
BalanceUnlatched(s) ==
    LET over(i)  == s.Vcell[i] > s.Vmax[Idx(s.cellModel)] * CentiVolt
        under(i) == s.Vcell[i] < s.Vmin[Idx(s.cellModel)] * CentiVolt
        alarm    == s.buzzerON \/ \E i \in Cells : ~over(i) /\ s.oneMinute /\ under(i)
    IN  [s EXCEPT
            !.shuntPin  = [i \in Cells |-> over(i)],
            !.buzzerON  = alarm,
            !.buzzerPin = alarm]

\* "check balancing and undervoltage", then the tone
Balance(s) ==
    LET over(i)  == s.Vcell[i] > s.Vmax[Idx(s.cellModel)] * CentiVolt
        under(i) == s.Vcell[i] < s.Vmin[Idx(s.cellModel)] * CentiVolt
        alarm    == s.buzzerON \/ \E i \in Cells : ~over(i) /\ s.oneMinute /\ under(i)
    IN  [s EXCEPT
            !.shuntPin  = [i \in Cells |-> IF over(i) THEN TRUE ELSE s.shuntPin[i]],
            !.buzzerON  = alarm,
            !.buzzerPin = alarm]

\* "this is done every 60 seconds"
MinuteStep(s, t) ==
    [s EXCEPT
        !.memo_tempo_tendancy = t,
        !.memo_Vcell          = s.Vcell,
        !.oneMinute           = TRUE,
        !.runOnce             = TRUE]

\* One pass of loop() that samples millis() = t, reads raw on the analog
\* channels and the given levels on the digital inputs.  tempo and the
\* memo_tempo* values are unsigned long; within the time bounds of the model
\* no subtraction wraps.
LoopPass(s, t, raw, ImaxPin, Urc, Drc, Crc) ==
    LET s1 == ReSettle([s EXCEPT !.tempo = t, !.buzzerPin = FALSE,
                                 !.cleared = FALSE], t)
        s2 == Sample(s1, raw, ImaxPin)
        s3 == [s2 EXCEPT !.pwm = DutyStep(s2.pwm, s2.Imax, s2.Vcell[0])]
        s4 == [s3 EXCEPT !.analogReadsCount = (s3.analogReadsCount + 1) % 65536]
    IN  IF WindowReturn(s4.analogReadsCount) THEN s4
        ELSE LET s5 == Resolve(s4)
             IN  IF t - s5.memo_tempo < Second THEN s5
                 ELSE LET s6 == Balance([s5 EXCEPT !.memo_tempo = t])
                          s7 == RotactorConfig(s6, Urc, Drc, Crc)
                      IN  IF t - s7.memo_tempo_tendancy < Minute THEN s7
                          ELSE MinuteStep(s7, t)

(***************************************************************************)
(* The state after setup(): the globals' initialisers, EEPROM_Get() and    *)
(* RotactorConfig() on the selector position found at power-up.            *)
(***************************************************************************)
Setup(store, Urc, Drc, Crc) ==
    LET rec == EEPROM_Get(store)
        g == [ cellModel |-> FALSE, cellNumber |-> 4, Vmax |-> rec.Vmax,
               Vmin |-> rec.Vmin, Vcalibration |-> rec.Vcalibration,
               eeprom |-> store, Valim |-> 0,
               Vcell |-> [i \in Cells |-> Sentinel], memo_Vcell |-> Zero4,
               runOnce |-> TRUE, pwm |-> 0, Imax |-> FALSE, memo_Urc |-> FALSE,
               memo_Drc |-> FALSE, memo_Crc |-> FALSE, VcellCumul |-> Zero4,
               analogReadsCount |-> 0, buzzerON |-> FALSE, oneMinute |-> FALSE,
               counter |-> 0, memo_tempo_shuntON |-> 0, memo_tempo |-> 0,
               memo_tempo_tendancy |-> 0, tempo |-> 0, VcellByte |-> Zero4,
               shuntPin |-> [i \in Cells |-> FALSE], buzzerPin |-> FALSE,
               pulses |-> 0, cleared |-> FALSE ]
    IN  RotactorConfig(g, Urc, Drc, Crc)

InitFrom(stores, selectors) ==
    \E store \in stores, sel \in selectors :
        \E n \in {Setup(store, sel[1], sel[2], sel[3])} :
            /\ cellModel = n.cellModel
            /\ cellNumber = n.cellNumber
            /\ Vmax = n.Vmax
            /\ Vmin = n.Vmin
            /\ Vcalibration = n.Vcalibration
            /\ eeprom = n.eeprom
            /\ Valim = n.Valim
            /\ Vcell = n.Vcell
            /\ memo_Vcell = n.memo_Vcell
            /\ runOnce = n.runOnce
            /\ pwm = n.pwm
            /\ Imax = n.Imax
            /\ memo_Urc = n.memo_Urc
            /\ memo_Drc = n.memo_Drc
            /\ memo_Crc = n.memo_Crc
            /\ VcellCumul = n.VcellCumul
            /\ analogReadsCount = n.analogReadsCount
            /\ buzzerON = n.buzzerON
            /\ oneMinute = n.oneMinute
            /\ counter = n.counter
            /\ memo_tempo_shuntON = n.memo_tempo_shuntON
            /\ memo_tempo = n.memo_tempo
            /\ memo_tempo_tendancy = n.memo_tempo_tendancy
            /\ tempo = n.tempo
            /\ VcellByte = n.VcellByte
            /\ shuntPin = n.shuntPin
            /\ buzzerPin = n.buzzerPin
            /\ pulses = n.pulses
            /\ cleared = n.cleared
            /\ index = 0
            /\ consoleInput = [k \in 0..(BufferSize - 1) |-> 0]
            /\ whatToDisplay = Ascii.A
            /\ serialRx = << >>
            /\ consoleOut = ""
            /\ strayWrite = FALSE
            /\ received = 0

\* loop(): the whole pass as one action
Loop(dt, raw, ImaxPin, Urc, Drc, Crc) ==
    \E n \in {LoopPass(State, tempo + dt, raw, ImaxPin, Urc, Drc, Crc)} :
        /\ cellModel' = n.cellModel
        /\ cellNumber' = n.cellNumber
        /\ Vmax' = n.Vmax
        /\ Vmin' = n.Vmin
        /\ Vcalibration' = n.Vcalibration
        /\ eeprom' = n.eeprom
        /\ Valim' = n.Valim
        /\ Vcell' = n.Vcell
        /\ memo_Vcell' = n.memo_Vcell
        /\ runOnce' = n.runOnce
        /\ pwm' = n.pwm
        /\ Imax' = n.Imax
        /\ memo_Urc' = n.memo_Urc
        /\ memo_Drc' = n.memo_Drc
        /\ memo_Crc' = n.memo_Crc
        /\ VcellCumul' = n.VcellCumul
        /\ analogReadsCount' = n.analogReadsCount
        /\ buzzerON' = n.buzzerON
        /\ oneMinute' = n.oneMinute
        /\ counter' = n.counter
        /\ memo_tempo_shuntON' = n.memo_tempo_shuntON
        /\ memo_tempo' = n.memo_tempo
        /\ memo_tempo_tendancy' = n.memo_tempo_tendancy
        /\ tempo' = n.tempo
        /\ VcellByte' = n.VcellByte
        /\ shuntPin' = n.shuntPin
        /\ buzzerPin' = n.buzzerPin
        /\ pulses' = n.pulses
        /\ cleared' = n.cleared
        /\ UNCHANGED << index, consoleInput, whatToDisplay, serialRx, consoleOut,
                        strayWrite, received >>

(***************************************************************************)
(* Inputs and specifications                                               *)
(***************************************************************************)
Channels(a, b, c, d) ==
    [i \in Cells |-> CASE i = 0 -> a [] i = 1 -> b [] i = 2 -> c [] i = 3 -> d]

Selectors == BOOLEAN \X BOOLEAN \X BOOLEAN

\* the passes loop() can make when the time since the previous pass is in
\* deltas, the analog channels read one of readings, the overcurrent input is
\* at one of the levels imaxPins and the selector at one of selectors
Passes(deltas, readings, imaxPins, selectors, limit) ==
    \E dt \in deltas, raw \in readings, ImaxPin \in imaxPins, sel \in selectors :
        /\ tempo + dt <= limit
        /\ Loop(dt, raw, ImaxPin, sel[1], sel[2], sel[3])

(* Spec: the first seconds after power-up, every selector position at      *)
(* power-up and at every pass, default and calibrated store, no            *)
(* overcurrent.  analogRead values (0..1023) of the four channels:         *)
(*   store       800 x4   600 x4   740 x4   <<840, 860, 800, 800>>         *)
(*   cal 1.000   3.91 V   2.93 V   3.62 V   4.11, 4.30, 3.32, 3.91 V       *)
(*   cal 1.023   4.00 V   3.00 V   3.70 V   4.20, 4.40, 3.40, 4.00 V       *)
(* so that with the calibrated store a cell reads exactly Vmax (4.20 V     *)
(* Li-ion, 3.70 V LifePo4).                                                *)
Readings ==
    { Channels(800, 800, 800, 800), Channels(600, 600, 600, 600),
      Channels(740, 740, 740, 740), Channels(840, 860, 800, 800) }

\* time between two passes' millis() samples, in ms
Deltas == {500, 1000}

\* level of the overcurrent input (INPUT_PULLUP: HIGH = no overcurrent)
ImaxLevels == {TRUE}

Init == InitFrom(Stores, Selectors)

Next == Passes(Deltas, Readings, ImaxLevels, Selectors, Horizon * 500)

Spec == Init /\ [][Next]_vars

(* SpecMinute: the run across the 60-second step.  A pass may find a whole  *)
(* minute elapsed; cells read 2.93 V or 3.91 V, the selector is at 4 x      *)
(* Li-ion or 2 x LifePo4.  The third reading is a pack of two cells at      *)
(* 3.32 V with the taps of slots 2 and 3 tied to its top: the two upper     *)
(* slots read about 0 V.                                                    *)
MinuteReadings ==
    { Channels(800, 800, 800, 800), Channels(600, 600, 600, 600),
      Channels(680, 680, 453, 340) }

MinuteDeltas == {500, 60000}

MinuteSelectors == { <<TRUE, TRUE, FALSE>>, <<TRUE, FALSE, TRUE>> }

InitMinute == InitFrom({DefaultStore}, MinuteSelectors)

NextMinute ==
    Passes(MinuteDeltas, MinuteReadings, ImaxLevels, MinuteSelectors, HorizonMinute * 500)

SpecMinute == InitMinute /\ [][NextMinute]_vars

(* SpecPwm: the duty regulator over passes of 250 ms, overcurrent input at  *)
(* either level; with calibration 1.023 the bottom cell reads 4.00 V,       *)
(* 4.90 V (the sentinel, exactly) or 5.00 V.                                *)
PwmReadings ==
    { Channels(800, 800, 800, 800), Channels(980, 980, 980, 980),
      Channels(1000, 1000, 1000, 1000) }

PwmDeltas == {250}

PwmSelectors == { <<TRUE, TRUE, FALSE>> }

InitPwm == InitFrom({CalibratedStore}, PwmSelectors)

NextPwm == Passes(PwmDeltas, PwmReadings, BOOLEAN, PwmSelectors, HorizonPwm * 250)

SpecPwm == InitPwm /\ [][NextPwm]_vars

(* SpecLive: loop() runs for ever.  Passes follow one another 250 ms apart  *)
(* until the horizon, past the first 60-second step; the selector is at     *)
(* 4 x Li-ion, 2 x Li-ion or 2 x LifePo4, at power-up and at every poll.    *)
(* Fairness:                                                                *)
(* main() calls loop() for ever and millis() advances, so as long as a pass *)
(* is possible a pass is made and tempo grows.                              *)
LiveReadings == { Channels(800, 800, 800, 800) }

LiveDeltas == {250}

LiveSelectors ==
    { <<TRUE, TRUE, FALSE>>, <<TRUE, FALSE, FALSE>>, <<TRUE, FALSE, TRUE>> }

InitLive == InitFrom({DefaultStore}, LiveSelectors)

NextLive ==
    Passes(LiveDeltas, LiveReadings, ImaxLevels, LiveSelectors, HorizonLive * 250)

\* millis() advances: what every pass of NextLive does to tempo
TimeAdvances ==
    \E dt \in LiveDeltas : tempo + dt <= HorizonLive * 250 /\ tempo' = tempo + dt

SpecLive == InitLive /\ [][NextLive]_vars /\ WF_tempo(TimeAdvances)

(***************************************************************************)
(* The console: serialEvent(), EEPROM_Update().                            *)
(*                                                                         *)
(* Characters are their ASCII codes.  The sketch's float arithmetic is     *)
(* IEEE single precision: a threshold of h hundredths is the float nearest *)
(* to h/100 and a multiplier of v thousandths the float nearest to v/1000. *)
(* EEPROM_Update multiplies them back and truncates; the sets below list   *)
(* the values whose product falls on the other side of the integer.        *)
(***************************************************************************)
\* "val < 800 || val > 1200"
CalMin == 800

CalMax == 1200

\* "val < 270 || val > 460"
ThrMin == 270

ThrMax == 460

\* multipliers v (thousandths, 700..1300) with 1000 * float(v/1000) < v
CalibrationLow == {1004, 1009, 1012, 1017, 1022}

\* thresholds h (hundredths, 1..560) for which float(h/100) * 100.0 - 300
\* truncates to h - 301, and to h - 299
ThresholdLow ==
    {418, 420, 422, 424, 443, 445, 447, 449, 468, 470, 472, 474, 493, 495, 497, 499}

ThresholdHigh == {213, 214, 215, 216, 238, 239, 240, 241}

\* "int var = 1000*Vcalibration[i]": float product, truncated
Var1000(v) == IF v \in CalibrationLow THEN v - 1 ELSE v

\* "(Vmax[0]*100.0)-300" truncated toward zero, before its conversion to a byte
Scaled(h) ==
    h - 300 - (IF h \in ThresholdLow THEN 1 ELSE 0) + (IF h \in ThresholdHigh THEN 1 ELSE 0)

\* the byte EEPROM.update receives for a threshold: the truncated value if
\* a byte can hold it; the conversion of any other float to uint8_t is
\* undefined, the build yields the low byte of the integer or 0
ThresholdBytes(h) ==
    IF Scaled(h) \in 0..255 THEN {Scaled(h)} ELSE {Scaled(h) % 256, 0}

\* EEPROM_Update(): the stores it can leave
EEPROM_Update(cal, vmax, vmin) ==
    { [a \in 0..11 |->
         CASE a \in {0, 2, 4, 6} -> (Var1000(cal[a \div 2]) % 65536) \div 256
           [] a \in {1, 3, 5, 7} -> Var1000(cal[a \div 2]) % 256
           [] a = 8  -> b[1]
           [] a = 9  -> b[2]
           [] a = 10 -> b[3]
           [] a = 11 -> b[4]] :
      b \in ThresholdBytes(vmax[0]) \X ThresholdBytes(vmax[1])
            \X ThresholdBytes(vmin[0]) \X ThresholdBytes(vmin[1]) }

\* "val = ..." of the B command and of the L and H commands: int is 16 bits
\* wide, the sum of a line with characters far from the digits wraps
val4(buf) ==
    Int16((buf[5] - 48) + (10 * (buf[4] - 48)) + (100 * (buf[3] - 48))
            + (1000 * (buf[2] - 48)))

val3(buf) ==
    Int16((buf[4] - 48) + (10 * (buf[3] - 48)) + (100 * (buf[2] - 48)))

\* what serialEvent() can change besides the buffer and its index
Memory ==
    [ Vcalibration |-> Vcalibration, Vmax |-> Vmax, Vmin |-> Vmin,
      eeprom |-> eeprom, whatToDisplay |-> whatToDisplay, Imax |-> Imax,
      consoleOut |-> consoleOut, strayWrite |-> strayWrite ]

\* case 'B'.  "Vcalibration[cell] = ..." with cell outside 0..3 stores a
\* float outside the array: the store lands on memory the model does not
\* hold or, for cell = -1, on the float defined just before the array,
\* Vmin[1] (val/1000 V, here cut to hundredths)
CalibrationCommand(m, buf, cells) ==
    LET val  == val4(buf)
        cell == buf[1] - 49
        m1   == [m EXCEPT !.whatToDisplay = Ascii.B]
    IN  IF cell > cells
        THEN {[m1 EXCEPT !.consoleOut = "cell number out of range"]}
        ELSE IF val < CalMin \/ val > CalMax
        THEN {[m1 EXCEPT !.consoleOut = "Calibration value out of range"]}
        ELSE IF cell \in Cells
        THEN {[m1 EXCEPT !.Vcalibration[cell] = val]}
        ELSE {[m1 EXCEPT !.strayWrite = TRUE]}
             \cup (IF cell = -1
                   THEN {[m1 EXCEPT !.strayWrite = TRUE, !.Vmin[1] = val \div 10]}
                   ELSE {})

\* the case 'L' / 'H' without "unrecognised cells model": any other letter
\* is taken for 'f'
ThresholdCommandTwoModels(m, buf, display, high) ==
    LET val == val3(buf)
        m1  == [m EXCEPT !.whatToDisplay = display]
        k   == IF buf[1] \in {Ascii.t, Ascii.T} THEN 0 ELSE 1
    IN  IF val < ThrMin \/ val > ThrMax
        THEN {[m1 EXCEPT !.consoleOut = "cell voltage value out of range"]}
        ELSE {IF high THEN [m1 EXCEPT !.Vmax[k] = val] ELSE [m1 EXCEPT !.Vmin[k] = val]}

\* case 'L' (high = FALSE, Vmin) and case 'H' (high = TRUE, Vmax)
ThresholdCommand(m, buf, display, high) ==
    LET val == val3(buf)
        m1  == [m EXCEPT !.whatToDisplay = display]
        set(k) == IF high THEN [m1 EXCEPT !.Vmax[k] = val] ELSE [m1 EXCEPT !.Vmin[k] = val]
    IN  IF val < ThrMin \/ val > ThrMax
        THEN {[m1 EXCEPT !.consoleOut = "cell voltage value out of range"]}
        ELSE IF buf[1] \in {Ascii.t, Ascii.T} THEN {set(0)}
        ELSE IF buf[1] \in {Ascii.f, Ascii.F} THEN {set(1)}
        ELSE {[m1 EXCEPT !.consoleOut = "unrecognised cells model"]}

\* "switch(consoleInput[0])"
Command(m, buf, cells) ==
    CASE buf[0] \in {Ascii.b, Ascii.B} -> CalibrationCommand(m, buf, cells)
      [] buf[0] \in {Ascii.l, Ascii.L} -> ThresholdCommand(m, buf, Ascii.L, FALSE)
      [] buf[0] \in {Ascii.h, Ascii.H} -> ThresholdCommand(m, buf, Ascii.H, TRUE)
      [] buf[0] \in {Ascii.e, Ascii.E} ->
            LET rec == EEPROM_Get(m.eeprom)
            IN  {[m EXCEPT !.whatToDisplay = Ascii.A,
                           !.consoleOut = "cancel all changes!",
                           !.Vcalibration = rec.Vcalibration,
                           !.Vmax = rec.Vmax,
                           !.Vmin = rec.Vmin]}
      [] buf[0] \in {Ascii.s, Ascii.S} ->
            {[m EXCEPT !.whatToDisplay = Ascii.A,
                       !.consoleOut = "all data saved!",
                       !.eeprom = store] :
                store \in EEPROM_Update(m.Vcalibration, m.Vmax, m.Vmin)}
      [] OTHER ->
            {[m EXCEPT !.whatToDisplay = Ascii.A, !.consoleOut = "unrecognised command"]}

\* serialEvent() with one byte available: the states it can leave.
\* "consoleInput[index] = ..." with index >= 7 stores outside the
\* 7-character array: the byte lands on memory the model does not hold or,
\* at index 7, on the next variable without initialiser, Imax.
serialEvent(m, idx, buf, incomingChar, cells) ==
    LET ch     == IF incomingChar # NL THEN incomingChar ELSE 0
        inside == idx \in 0..(BufferSize - 1)
        buf1   == IF inside THEN [buf EXCEPT ![idx] = ch] ELSE buf
        m0     == [m EXCEPT !.consoleOut = "", !.strayWrite = ~inside]
        ms     == {m0} \cup (IF idx = BufferSize THEN {[m0 EXCEPT !.Imax = (ch # 0)]} ELSE {})
    IN  IF incomingChar # NL
        THEN {[mem |-> x, index |-> (idx + 1) % 256, consoleInput |-> buf1] : x \in ms}
        ELSE {[mem |-> y, index |-> 0, consoleInput |-> buf1] :
                 y \in UNION {Command(x, buf1, cells) : x \in ms}}

\* a call of serialEvent() that finds a byte
SerialEvent ==
    /\ serialRx # << >>
    /\ \E n \in serialEvent(Memory, index, consoleInput, Head(serialRx), cellNumber) :
          /\ index' = n.index
          /\ consoleInput' = n.consoleInput
          /\ Vcalibration' = n.mem.Vcalibration
          /\ Vmax' = n.mem.Vmax
          /\ Vmin' = n.mem.Vmin
          /\ eeprom' = n.mem.eeprom
          /\ whatToDisplay' = n.mem.whatToDisplay
          /\ Imax' = n.mem.Imax
          /\ consoleOut' = n.mem.consoleOut
          /\ strayWrite' = n.mem.strayWrite
    /\ serialRx' = Tail(serialRx)
    /\ UNCHANGED << cellModel, cellNumber, Valim, Vcell, memo_Vcell, runOnce, pwm,
                    memo_Urc, memo_Drc, memo_Crc, VcellCumul, analogReadsCount,
                    buzzerON, oneMinute, counter, memo_tempo_shuntON, memo_tempo,
                    memo_tempo_tendancy, tempo, VcellByte, shuntPin, buzzerPin,
                    pulses, cleared, received >>

\* the host sends one more line, of at most limit lines
Receive(line, limit) ==
    /\ serialRx = << >>
    /\ received < limit
    /\ serialRx' = line
    /\ received' = received + 1
    /\ UNCHANGED << cellModel, cellNumber, Vmax, Vmin, Vcalibration, eeprom, Valim,
                    Vcell, memo_Vcell, runOnce, pwm, Imax, memo_Urc, memo_Drc,
                    memo_Crc, VcellCumul, analogReadsCount, buzzerON, oneMinute,
                    counter, memo_tempo_shuntON, memo_tempo, memo_tempo_tendancy,
                    tempo, VcellByte, shuntPin, buzzerPin, pulses, cleared, index,
                    consoleInput, whatToDisplay, consoleOut, strayWrite >>

(* SpecConsole: the console after power-up with the default store, the     *)
(* selector at 4 x Li-ion or 2 x LifePo4.  The host sends up to MaxLines    *)
(* lines; serialEvent() reads them byte by byte.  loop() passes between     *)
(* two bytes are left out: Loop changes none of the variables of the        *)
(* console, the thresholds, the multipliers or the store.                   *)
Num3(n) == << Digit(n \div 100), Digit((n \div 10) % 10), Digit(n % 10) >>

Num4(n) == << Digit(n \div 1000) >> \o Num3(n % 1000)

ConsoleLines ==
    { << Ascii.L, Ascii.T >> \o Num3(270) \o << NL >>,     \* LT270
      << Ascii.H, Ascii.T >> \o Num3(300) \o << NL >>,     \* HT300
      << Ascii.L, Ascii.f >> \o Num3(500) \o << NL >>,     \* Lf500
      << Ascii.H, Ascii.X >> \o Num3(400) \o << NL >>,     \* HX400
      << Ascii.B, Digit(1) >> \o Num4(1023) \o << NL >>,   \* B11023
      << Ascii.B, Digit(1) >> \o Num4(1300) \o << NL >>,   \* B11300
      << Ascii.B, Digit(4) >> \o Num4(900) \o << NL >>,    \* B40900
      << Ascii.B, Digit(5) >> \o Num4(1000) \o << NL >>,   \* B51000
      << Ascii.B, Digit(0) >> \o Num4(1000) \o << NL >>,   \* B01000
      << Ascii.B, NL >>,                                   \* B
      << Ascii.X, Ascii.X, Ascii.X, Ascii.X, Ascii.X, Ascii.X, Ascii.X, Ascii.X, NL >>,
      << Ascii.S, NL >>,                                   \* S
      << Ascii.e, NL >> }                                  \* e

\* lines the host sends
MaxLines == 3

InitConsole == InitFrom({DefaultStore}, MinuteSelectors)

NextConsole ==
    \/ SerialEvent
    \/ \E line \in ConsoleLines : Receive(line, MaxLines)

SpecConsole == InitConsole /\ [][NextConsole]_vars

(***************************************************************************)
(* What a step did, read off the state before and after it.  tempo grows   *)
(* at every pass, so a memo equal to tempo' was written by this pass.      *)
(***************************************************************************)
\* the pass reached "this is done every second"
Evaluated == memo_tempo' = tempo'

\* the pass reached "this is done every 60 seconds"
MinuteFired == memo_tempo_tendancy' = tempo'

\* the pass gave a re-settle pulse
Pulsed == memo_tempo_shuntON' = tempo'

\* the selector inputs read by the pass differ from the ones last seen
Changed == <<memo_Urc', memo_Drc', memo_Crc'>> # <<memo_Urc, memo_Drc, memo_Crc>>

Min(a, b) == IF a < b THEN a ELSE b

Max(a, b) == IF a > b THEN a ELSE b

Sum4(f) == f[0] + f[1] + f[2] + f[3]

VmaxNow == Vmax[Idx(cellModel)] * CentiVolt

VminNow == Vmin[Idx(cellModel)] * CentiVolt

(***************************************************************************)
(* C1-C3: the duty regulator (SpecPwm)                                     *)
(***************************************************************************)
\* C1: at every pass the duty stays in 0..255 and moves by at most 1; a
\* pass that takes the decrement branch at duty 0 leaves it 0 and a pass
\* that takes the increment branch at duty 255 leaves it 255.
C1_DutySaturates ==
    [][ /\ pwm' \in 0..255
        /\ pwm' - pwm \in {-1, 0, 1}
        /\ (pwm = 0 /\ (Imax' \/ Vcell[0] < Sentinel)) => pwm' = 0
        /\ (pwm = 255 /\ ~(Imax' \/ Vcell[0] < Sentinel)) => pwm' = 255 ]_vars

\* the duty at its ceiling after a pass without overcurrent
C1_Witness == pwm = 255 /\ ~Imax

\* C2: at every pass that reads the overcurrent input active the duty goes
\* down by 1, or stays 0.
C2_OvercurrentDecrements ==
    [][ Imax' => pwm' = Max(pwm - 1, 0) ]_vars

\* overcurrent read at a pass that left the duty at 5
C2_Witness == Imax /\ pwm = 5

\* C3: at a pass that reads no overcurrent the duty goes down by 1 (floor 0)
\* if the bottom cell reads 4.9 V or more, and up by 1 (ceiling 255)
\* otherwise.
C3_SentinelThrottles ==
    [][ ~Imax' => pwm' = IF Vcell[0] >= Sentinel THEN Max(pwm - 1, 0)
                                                 ELSE Min(pwm + 1, 255) ]_vars

(***************************************************************************)
(* C4-C6, C9, C10: sampling, resolution, balancing, configuration (Spec)   *)
(***************************************************************************)
\* C4: a pass whose sample count has not exceeded the 100-sample window
\* leaves the cell voltages alone and keeps accumulating and counting; a
\* pass whose count has exceeded it resets accumulators and counter.
C4_ResolveAfterWindow ==
    [][ /\ (analogReadsCount + 1 <= SampleWindow) =>
              /\ Vcell' = Vcell
              /\ analogReadsCount' = analogReadsCount + 1
              /\ \A i \in Cells : VcellCumul'[i] = VcellCumul[i] + VcellByte'[i]
        /\ (analogReadsCount + 1 > SampleWindow) =>
              /\ analogReadsCount' = 0
              /\ VcellCumul' = Zero4 ]_vars

\* C5: a pass that resolves the voltages (it resets the sample counter)
\* leaves four cell voltages that sum to the top node's absolute voltage,
\* which is Valim, and a cell 0 voltage equal to node 0's absolute voltage.
C5_TelescopeSums ==
    [][ analogReadsCount' = 0 =>
          LET node(i) == ((VcellCumul[i] + VcellByte'[i]) * Vcalibration[i] * (i + 1))
                            \div (analogReadsCount + 1)
          IN  /\ Valim' = node(3)
              /\ Sum4(Vcell') = Valim'
              /\ Vcell'[0] = node(0) ]_vars

\* resolved from four different node voltages: cells 1 and 2 differ from cell 0
C5_Witness ==
    /\ tempo > 0
    /\ VcellByte = Channels(840, 860, 800, 800)
    /\ Vcell[1] > Vcell[0]
    /\ Vcell[2] < Vcell[0]
    /\ Valim = Sum4(Vcell)

\* C6: at a one-second evaluation, an active cell above the selected
\* chemistry's Vmax has its shunt on afterwards, and an active cell at or
\* below Vmax whose shunt was off still has it off.
C6_BalanceAboveVmax ==
    [][ Evaluated =>
          \A i \in Cells : i < cellNumber =>
              /\ Vcell'[i] > VmaxNow => shuntPin'[i]
              /\ (Vcell'[i] <= VmaxNow /\ ~shuntPin[i]) => ~shuntPin'[i] ]_vars

\* after an evaluation under an unchanged selector: cell 0 exactly at Vmax
\* with its shunt off, cell 1 above Vmax with its shunt on
C6_Witness ==
    /\ memo_tempo = tempo /\ tempo > 0
    /\ cellNumber >= 2 /\ ~runOnce
    /\ Vcell[0] = VmaxNow /\ ~shuntPin[0]
    /\ Vcell[1] > VmaxNow /\ shuntPin[1]

\* C9: the cell count and the chemistry are the truth table of the selector
\* inputs RotactorConfig last read.
C9_TruthTable ==
    /\ cellNumber \in 1..4
    /\ (memo_Urc /\ memo_Drc)   => cellNumber = 4
    /\ (memo_Urc /\ ~memo_Drc)  => cellNumber = 2
    /\ (~memo_Urc /\ memo_Drc)  => cellNumber = 3
    /\ (~memo_Urc /\ ~memo_Drc) => cellNumber = 1
    /\ cellModel <=> memo_Crc

\* after a poll in loop(): two LifePo4 cells selected
C9_Witness ==
    /\ memo_tempo = tempo /\ tempo > 0
    /\ memo_Urc /\ ~memo_Drc /\ memo_Crc
    /\ cellNumber = 2 /\ cellModel

\* C10: a poll that reads a selector input different from the one last seen
\* sets the re-settle flag; a poll that reads the inputs unchanged does not
\* set it (the flag, clear or cleared by this pass, is clear afterwards,
\* unless the 60-second step sets it).
C10_ChangeSetsOnce ==
    [][ Evaluated =>
          /\ Changed => runOnce'
          /\ (~Changed /\ ~MinuteFired /\ (~runOnce \/ counter > PulseLimit))
                => ~runOnce' ]_vars

\* the power-up sequence was completed and a poll set the flag again
C10_Witness ==
    /\ runOnce /\ counter = 0
    /\ memo_tempo = tempo /\ tempo > 0

(***************************************************************************)
(* C7, C8: the undervoltage alarm (SpecMinute)                             *)
(***************************************************************************)
\* C7: the alarm flag is never set before the one-minute flag.
C7_AlarmAfterMinute == buzzerON => oneMinute

\* the alarm raised, and sounded, after the first minute
C7_Witness == buzzerON /\ oneMinute /\ buzzerPin

\* C8: after a one-second evaluation at which no cell reads below Vmin the
\* alarm flag is clear and the pass has started no tone.
C8_AlarmNotLatched ==
    [][ (Evaluated /\ \A i \in Cells : Vcell'[i] >= VminNow)
            => (~buzzerON' /\ ~buzzerPin') ]_vars

(***************************************************************************)
(* C11, C17: the re-settle sequence (Spec)                                 *)
(***************************************************************************)
\* C11: when a pass clears the re-settle flag, the active shunts of the
\* configuration in force have been pulsed exactly 6 times since that
\* configuration was detected (at power-up or by a poll, be it in the middle
\* of a sequence) or, failing that, since the flag was last cleared.
C11_SixPulsesPerSequence ==
    [][ cleared' => pulses = PulseLimit + 1 ]_vars

\* C17: while the re-settle flag is clear, the shunt output of every slot
\* at or above the active cell count is HIGH.
C17_InactiveShunted ==
    ~runOnce => \A i \in Cells : i >= cellNumber => shuntPin[i]

\* normal monitoring of two cells, reached after a completed sequence:
\* slots 2 and 3 shunted, the two active shunts off
C17_Witness ==
    /\ ~runOnce /\ cellNumber = 2 /\ pulses = 0 /\ tempo > 0
    /\ shuntPin[2] /\ shuntPin[3] /\ ~shuntPin[0] /\ ~shuntPin[1]

(***************************************************************************)
(* C19: the alarm and the inactive slots (SpecMinute)                      *)
(***************************************************************************)
\* C19: a one-second evaluation that starts with the alarm flag clear and
\* at which no active cell (index below the cell count) reads below Vmin
\* leaves the alarm flag clear, whatever the inactive slots read.
C19_ActiveCellsOnly ==
    [][ ( /\ Evaluated
          /\ ~buzzerON \/ runOnce
          /\ \A i \in Cells : i < cellNumber => Vcell'[i] >= VminNow )
            => ~buzzerON' ]_vars

(***************************************************************************)
(* C12-C16, C20: the console and the store (SpecConsole)                   *)
(***************************************************************************)
\* the step is a call of serialEvent() that reads a byte
Read == serialRx # << >> /\ serialRx' = Tail(serialRx)

\* the step reads the newline of a line and runs the command in the buffer
Processed == Read /\ Head(serialRx) = NL

\* the step runs the S command
Saved == Processed /\ consoleOut' = "all data saved!"

Within(a, b, tolerance) == a - b <= tolerance /\ b - a <= tolerance

\* C12: what EEPROM_Get reads back from the store an S command leaves is
\* within 0.001 of every multiplier that is in 0.800..1.200 and within
\* 0.01 V of every threshold that is in 2.70..4.60 V.
C12_SaveLoadRoundTrip ==
    [][ Saved =>
          LET rec == EEPROM_Get(eeprom')
          IN  /\ \A i \in Cells : Vcalibration[i] \in CalMin..CalMax
                    => Within(rec.Vcalibration[i], Vcalibration[i], 1)
              /\ \A m \in 0..1 :
                    /\ Vmax[m] \in ThrMin..ThrMax => Within(rec.Vmax[m], Vmax[m], 1)
                    /\ Vmin[m] \in ThrMin..ThrMax => Within(rec.Vmin[m], Vmin[m], 1) ]_vars

\* C13: for both chemistries Vmin is below Vmax.
C13_VminBelowVmax == \A m \in 0..1 : Vmin[m] < Vmax[m]

\* the lines serialEvent() answers with a complaint
Diagnostics ==
    { "cell number out of range", "Calibration value out of range",
      "cell voltage value out of range", "unrecognised cells model",
      "unrecognised command" }

\* the command in the buffer is one the claim C14 lists
Rejectable(buf) ==
    \/ /\ buf[0] \in {Ascii.b, Ascii.B}
       /\ val4(buf) < CalMin \/ val4(buf) > CalMax
    \/ /\ buf[0] \in {Ascii.l, Ascii.L, Ascii.h, Ascii.H}
       /\ \/ val3(buf) < ThrMin \/ val3(buf) > ThrMax
          \/ ~(buf[1] \in {Ascii.t, Ascii.T, Ascii.f, Ascii.F})
    \/ ~(buf[0] \in {Ascii.b, Ascii.B, Ascii.l, Ascii.L, Ascii.h, Ascii.H,
                     Ascii.e, Ascii.E, Ascii.s, Ascii.S})

\* C14: a B command with a value outside 800..1200, an L or H command with
\* a value outside 270..460 or a chemistry letter other than t/T/f/F, and a
\* command with an unknown first character change no multiplier, no
\* threshold and not the store, and print a diagnostic.
C14_RejectedUnchanged ==
    [][ (Processed /\ Rejectable(consoleInput')) =>
          /\ Vcalibration' = Vcalibration
          /\ Vmax' = Vmax
          /\ Vmin' = Vmin
          /\ eeprom' = eeprom
          /\ consoleOut' \in Diagnostics ]_vars

\* "HX400" rejected after "HT300" was taken: Vmax of Li-ion stays 3.00 V
C14_Witness ==
    /\ index = 0 /\ serialRx = << >>
    /\ consoleInput[0] = Ascii.H /\ consoleInput[1] = Ascii.X /\ val3(consoleInput) = 400
    /\ consoleOut = "unrecognised cells model"
    /\ Vmax[0] = 300 /\ Vmax[1] = 370

\* C15: a B command with a value in 800..1200 and a designator 1..4 sets
\* the multiplier of slot designator-1 and nothing else; with any other
\* designator it changes nothing and stores nothing outside an array.
C15_DesignatorValidated ==
    [][ ( /\ Processed
          /\ consoleInput'[0] \in {Ascii.b, Ascii.B}
          /\ val4(consoleInput') \in CalMin..CalMax ) =>
          LET designator == consoleInput'[1] - 48
          IN  /\ Vmax' = Vmax /\ Vmin' = Vmin /\ eeprom' = eeprom
              /\ designator \in 1..4 =>
                    Vcalibration' = [Vcalibration EXCEPT ![designator - 1] = val4(consoleInput')]
              /\ ~(designator \in 1..4) =>
                    (Vcalibration' = Vcalibration /\ ~strayWrite') ]_vars

\* C16: every multiplier is in 0.800..1.200 and every threshold in
\* 2.70..4.60 V.
C16_ValuesInRange ==
    /\ \A i \in Cells : Vcalibration[i] \in CalMin..CalMax
    /\ \A m \in 0..1 : Vmax[m] \in ThrMin..ThrMax /\ Vmin[m] \in ThrMin..ThrMax

\* C20: every call of serialEvent() that reads a byte stores it, or the
\* terminating null, at a position below 7.
C20_IndexInsideBuffer ==
    [][ Read => index < BufferSize ]_vars

(***************************************************************************)
(* C18: termination of the re-settle sequence (SpecLive)                   *)
(***************************************************************************)
\* the longest a sequence can last under LiveDeltas: a pulse every second
\* pass (500 ms), then the pass that clears the flag
SettleTime == ((PulseLimit + 1) * 500) + 250

\* C18: whenever the re-settle flag is set, and the horizon leaves the
\* passes the time of a sequence, a later pass executes "counter = 0;
\* runOnce = false" (a poll of that same pass may set the flag again).
C18_ReSettleTerminates ==
    (runOnce /\ tempo + SettleTime <= HorizonLive * 250) ~> (cleared /\ counter = 0)

\* the sequence started by the 60-second step has been completed
C18_Witness ==
    /\ cleared /\ counter = 0 /\ ~runOnce
    /\ memo_tempo_tendancy = Minute
    /\ tempo > Minute

(***************************************************************************)
(* C21: the shunts are latched (Spec)                                      *)
(***************************************************************************)
\* C21: a shunt that is on before a pass and off after it belongs to a cell
\* that was active when the pass began, and the pass gave a re-settle
\* pulse; at every other pass a shunt that is on stays on.
C21_ShuntLatched ==
    [][ \A i \in Cells :
          (shuntPin[i] /\ ~shuntPin'[i]) => (Pulsed /\ i < cellNumber) ]_vars

\* normal monitoring: this pass evaluated cell 1 at or below Vmax and its
\* shunt is still on.  Only an earlier evaluation above Vmax can have
\* switched it on: the shunts of slots 2 and 3 are off, so slot 1 was not
\* left on from a time it was inactive.
C21_Witness ==
    /\ ~runOnce /\ ~cleared /\ cellNumber >= 2
    /\ memo_tempo = tempo /\ tempo > 0
    /\ Vcell[1] <= VmaxNow /\ shuntPin[1]
    /\ ~shuntPin[0] /\ ~shuntPin[2] /\ ~shuntPin[3]

====
